---- MODULE Spec2Model ----
(***************************************************************************)
(* Model of wisshrd (src/main.go, the StoredEntry version, lines 247-567): *)
(* the persisted history store, the candidate aggregator, the selector     *)
(* adapter, the confirmation prompt and the main flow.                     *)
(*                                                                         *)
(* Strings are sequences of one-character strings, so that TrimSpace,      *)
(* Fields, Split, HasPrefix, ToLower and Scanln are computed as the Go     *)
(* library computes them.                                                  *)
(***************************************************************************)
EXTENDS Integers, Sequences, FiniteSets, TLC

VARIABLES
    \* ---- addOrUpdateEntry on one category list
    entries, clock, arg, calls,
    \* ---- promptConfirmation and the launch decision of main
    cLine, cAnswer, cLaunched, cpc,
    \* ---- the configuration scanner of loadSSHConfig
    pCfg, pLine, pCount,
    \* ---- the session: main over successive runs of the program
    pc, runs, now, file, config, storedData, key, account, host, jump,
    sshCmd, exitCode, saveCalls, sshLaunched, selStarted, selFailed,
    \* ---- one runFzf call: producer task, stdin pipe, picker, cmd.Output
    nItems, plan, idx, ppc, pipeBuf, stdinClosed, readEndOpen, readCount,
    kpc, opc

entriesVars == <<entries, clock, arg, calls>>
confirmVars == <<cLine, cAnswer, cLaunched, cpc>>
parseVars   == <<pCfg, pLine, pCount>>
mainVars    == <<pc, runs, now, file, config, storedData, key, account, host,
                 jump, sshCmd, exitCode, saveCalls, sshLaunched, selStarted,
                 selFailed>>
fzfVars     == <<nItems, plan, idx, ppc, pipeBuf, stdinClosed, readEndOpen,
                 readCount, kpc, opc>>
vars == <<entriesVars, confirmVars, parseVars, mainVars, fzfVars>>

----------------------------------------------------------------------------
\* Bounds

MaxInitLen == 2     \* longest list the entries specification starts from
MaxCalls   == 3     \* addOrUpdateEntry calls in one behaviour
MaxClock   == 3     \* largest value of the clock
MaxLineLen == 3     \* longest confirmation line
MaxBody    == 3     \* longest text after a configuration keyword
MaxLines   == 1     \* configuration lines scanned in one behaviour
MaxRuns    == 3     \* runs of the program in one behaviour
PipeCap    == 2     \* lines the stdin pipe buffers before a write blocks
MaxItems   == PipeCap + 2   \* longest candidate list given to runFzf

----------------------------------------------------------------------------
\* Strings

SeqsUpTo(S, n) == UNION {[1..k -> S] : k \in 0..n}

IsSpace(c) == c \in {" ", "\n", "\t"}

RECURSIVE TrimLeft(_)
TrimLeft(s) ==
    IF s = <<>> THEN s
    ELSE IF IsSpace(Head(s)) THEN TrimLeft(Tail(s)) ELSE s

RECURSIVE TrimRight(_)
TrimRight(s) ==
    IF s = <<>> THEN s
    ELSE IF IsSpace(s[Len(s)]) THEN TrimRight(SubSeq(s, 1, Len(s) - 1)) ELSE s

\* strings.TrimSpace
TrimSpace(s) == TrimRight(TrimLeft(s))

\* strings.HasPrefix
HasPrefix(s, p) == Len(s) >= Len(p) /\ SubSeq(s, 1, Len(p)) = p

\* strings.TrimPrefix
TrimPrefix(s, p) == IF HasPrefix(s, p) THEN SubSeq(s, Len(p) + 1, Len(s)) ELSE s

\* strings.Contains for a one-character substring
Contains(s, c) == \E i \in 1..Len(s) : s[i] = c

RECURSIVE FieldsAcc(_, _, _)
FieldsAcc(s, cur, acc) ==
    IF s = <<>> THEN (IF cur = <<>> THEN acc ELSE Append(acc, cur))
    ELSE IF IsSpace(Head(s))
         THEN FieldsAcc(Tail(s), <<>>, IF cur = <<>> THEN acc ELSE Append(acc, cur))
         ELSE FieldsAcc(Tail(s), Append(cur, Head(s)), acc)

\* strings.Fields: the maximal runs of non-space characters
Fields(s) == FieldsAcc(s, <<>>, <<>>)

RECURSIVE SplitAcc(_, _, _, _)
SplitAcc(s, sep, cur, acc) ==
    IF s = <<>> THEN Append(acc, cur)
    ELSE IF Head(s) = sep
         THEN SplitAcc(Tail(s), sep, <<>>, Append(acc, cur))
         ELSE SplitAcc(Tail(s), sep, Append(cur, Head(s)), acc)

\* strings.Split for a one-character separator: empty pieces are kept
Split(s, sep) == SplitAcc(s, sep, <<>>, <<>>)

LowerChar(c) == IF c = "Y" THEN "y" ELSE IF c = "N" THEN "n" ELSE c

\* strings.ToLower
ToLower(s) == [i \in 1..Len(s) |-> LowerChar(s[i])]

----------------------------------------------------------------------------
\* Persisted history store: entries

Entry(v, lu, ca) == [Value |-> v, LastUsed |-> lu, CreatedAt |-> ca]

\* getValues
getValues(es) == [i \in 1..Len(es) |-> es[i].Value]

\* createStoredEntry
createStoredEntry(v, t) == Entry(v, t, t)

\* index of the first entry with the value, 0 when there is none
FirstIndex(es, v) ==
    IF \E i \in 1..Len(es) : es[i].Value = v
    THEN CHOOSE i \in 1..Len(es) :
            /\ es[i].Value = v
            /\ \A j \in 1..(i - 1) : es[j].Value # v
    ELSE 0

addOrUpdateEntryAlwaysAppend(es, v, t) == Append(es, Entry(v, t, t))

addOrUpdateEntryResetCreated(es, v, t) ==
    LET i == FirstIndex(es, v) IN
    IF i # 0 THEN [es EXCEPT ![i] = Entry(v, t, t)]
    ELSE Append(es, Entry(v, t, t))

\* addOrUpdateEntry
addOrUpdateEntry(es, v, t) ==
    LET i == FirstIndex(es, v) IN
    IF i # 0 THEN [es EXCEPT ![i].LastUsed = t]
    ELSE Append(es, Entry(v, t, t))

----------------------------------------------------------------------------
\* Specification of addOrUpdateEntry on one list

EntryValues == {<<>>, <<"a">>, <<"b">>}

NoDup(es) == \A i, j \in 1..Len(es) : es[i].Value = es[j].Value => i = j

InitialLists ==
    {[i \in 1..Len(s) |-> Entry(s[i], 0, 0)] :
        s \in {t \in SeqsUpTo(EntryValues, MaxInitLen) :
                 \A i, j \in 1..Len(t) : t[i] = t[j] => i = j}}

EntriesInit ==
    /\ entries \in InitialLists
    /\ clock = 0
    /\ arg = <<>>
    /\ calls = 0

EntriesPark ==
    /\ entries = <<>>
    /\ clock = 0
    /\ arg = <<>>
    /\ calls = 0

\* one call entries = addOrUpdateEntry(entries, v), time.Now() being the clock
AddOrUpdate ==
    /\ calls < MaxCalls
    /\ \E v \in EntryValues :
          /\ arg' = v
          /\ entries' = addOrUpdateEntry(entries, v, clock)
    /\ calls' = calls + 1
    /\ UNCHANGED clock

\* time passes
Tick ==
    /\ clock < MaxClock
    /\ clock' = clock + 1
    /\ UNCHANGED <<entries, arg, calls>>

----------------------------------------------------------------------------
\* Confirmation prompt

ConfirmAlphabet == {"y", "Y", "n", " "}
ConfirmLines == SeqsUpTo(ConfirmAlphabet, MaxLineLen)

RECURSIVE Token(_)
\* the longest prefix without a space
Token(s) ==
    IF s = <<>> THEN s
    ELSE IF IsSpace(Head(s)) THEN <<>> ELSE <<Head(s)>> \o Token(Tail(s))

RECURSIVE SkipBlanks(_)
SkipBlanks(s) ==
    IF s = <<>> THEN s
    ELSE IF Head(s) \in {" ", "\t"} THEN SkipBlanks(Tail(s)) ELSE s

\* fmt.Scanln(&response) on the input line (its newline not included): the
\* operand is the first space-delimited token; reaching the newline before a
\* token, or text after the token, is reported as an error, with the operand
\* already stored
Scanln(line) ==
    LET s   == SkipBlanks(line)
        tok == Token(s)
        rest == SubSeq(s, Len(tok) + 1, Len(s))
    IN  IF s = <<>> THEN [val |-> <<>>, err |-> TRUE]
        ELSE [val |-> tok, err |-> SkipBlanks(rest) # <<>>]

\* promptConfirmation: the error of Scanln is dropped
promptConfirmation(line) == ToLower(Scanln(line).val) = <<"y">>

ConfirmInit ==
    /\ cLine \in ConfirmLines
    /\ cAnswer = FALSE
    /\ cLaunched = FALSE
    /\ cpc = "prompt"

ConfirmPark ==
    /\ cLine = <<>>
    /\ cAnswer = FALSE
    /\ cLaunched = FALSE
    /\ cpc = "prompt"

\* main: if promptConfirmation(sshCmd) { executeSSH(sshCmd) } else { cancelled }
Confirm ==
    /\ cpc = "prompt"
    /\ cAnswer' = promptConfirmation(cLine)
    /\ cLaunched' = promptConfirmation(cLine)
    /\ cpc' = "done"
    /\ UNCHANGED cLine

----------------------------------------------------------------------------
\* Candidate aggregator: the configuration scanner

HostKw      == <<"H", "o", "s", "t", " ">>
UserKw      == <<"U", "s", "e", "r", " ">>
ProxyJumpKw == <<"P", "r", "o", "x", "y", "J", "u", "m", "p", " ">>

RECURSIVE EntriesOf(_, _)
EntriesOf(vs, t) ==
    IF vs = <<>> THEN <<>>
    ELSE <<createStoredEntry(Head(vs), t)>> \o EntriesOf(Tail(vs), t)

EmptyConfig == [Keys |-> <<>>, Accounts |-> <<>>, Hosts |-> <<>>, Jumps |-> <<>>]

\* the body of the scanner loop for one line
ScanLine(cfg, raw, t) ==
    LET line == TrimSpace(raw) IN
    IF HasPrefix(line, HostKw)
    THEN LET hostText == TrimPrefix(line, HostKw) IN
         IF ~Contains(hostText, "*")
         THEN [cfg EXCEPT !.Hosts = @ \o EntriesOf(Fields(hostText), t)]
         ELSE cfg
    ELSE IF HasPrefix(line, UserKw)
    THEN [cfg EXCEPT !.Accounts =
             Append(@, createStoredEntry(TrimPrefix(line, UserKw), t))]
    ELSE IF HasPrefix(line, ProxyJumpKw)
    THEN [cfg EXCEPT !.Jumps =
             Append(@, createStoredEntry(TrimPrefix(line, ProxyJumpKw), t))]
    ELSE cfg

RECURSIVE ScanLines(_, _, _)
\* the scanner loop over the lines of the file
ScanLines(cfg, lines, t) ==
    IF lines = <<>> THEN cfg
    ELSE ScanLines(ScanLine(cfg, Head(lines), t), Tail(lines), t)

BodyAlphabet == {"a", "*", " "}
ConfigLines ==
    {lead \o kw \o body :
        lead \in {<<>>, <<" ">>},
        kw \in {HostKw, UserKw, ProxyJumpKw, <<>>},
        body \in SeqsUpTo(BodyAlphabet, MaxBody)}

ParseInit ==
    /\ pCfg = EmptyConfig
    /\ pLine = <<>>
    /\ pCount = 0

ParsePark == ParseInit

\* scanner.Scan() delivers one more line and the loop body handles it
ScanOne ==
    /\ pCount < MaxLines
    /\ \E l \in ConfigLines :
          /\ pLine' = l
          /\ pCfg' = ScanLine(pCfg, l, 0)
    /\ pCount' = pCount + 1

----------------------------------------------------------------------------
\* Persisted history store: the file

Categories == {"Keys", "Accounts", "Hosts", "Jumps"}

EmptyData == [Keys |-> <<>>, Accounts |-> <<>>, Hosts |-> <<>>, Jumps |-> <<>>]

\* The history file: absent, valid JSON of the right shape, unreadable,
\* not JSON at all ("syntax"), or JSON in which the fields named in bad hold
\* a value of the wrong type ("type").
AbsentFile == [kind |-> "absent", data |-> EmptyData, bad |-> {}]
ValidFile(d) == [kind |-> "valid", data |-> d, bad |-> {}]

\* json.Unmarshal(file, data) into the empty StoredData: a syntax error is
\* found before anything is stored; a value of the wrong type is skipped,
\* the other fields are decoded, and the error is returned at the end
Unmarshal(f) ==
    IF f.kind = "valid" THEN [data |-> f.data, err |-> FALSE]
    ELSE IF f.kind = "syntax" THEN [data |-> EmptyData, err |-> TRUE]
    ELSE [data |-> [Keys     |-> IF "Keys" \in f.bad THEN <<>> ELSE f.data.Keys,
                    Accounts |-> IF "Accounts" \in f.bad THEN <<>> ELSE f.data.Accounts,
                    Hosts    |-> IF "Hosts" \in f.bad THEN <<>> ELSE f.data.Hosts,
                    Jumps    |-> IF "Jumps" \in f.bad THEN <<>> ELSE f.data.Jumps],
          err |-> TRUE]

\* loadStoredData; dirOk: getConfigPath succeeds
loadStoredData(dirOk, f) ==
    IF ~dirOk THEN [data |-> EmptyData, err |-> TRUE]
    ELSE IF f.kind = "absent" THEN [data |-> EmptyData, err |-> FALSE]
    ELSE IF f.kind = "unreadable" THEN [data |-> EmptyData, err |-> TRUE]
    ELSE Unmarshal(f)

\* saveStoredData; ok: getConfigPath and os.WriteFile succeed
saveStoredData(d, ok, f) == IF ok THEN ValidFile(d) ELSE f

----------------------------------------------------------------------------
\* Candidate aggregator

CurrentUser == <<"u">>

\* ~/.ssh/config: absent, or three directives
SampleConfig ==
    << HostKw \o <<"a">>, UserKw \o <<"s">>, ProxyJumpKw \o <<"j">> >>
SshConfigFiles == {<<>>, SampleConfig}

\* loadSSHConfig once the home directory is known; userOk: user.Current()
\* succeeds
loadSSHConfig(userOk, lines, dirOk, f, t) ==
    LET seeded == IF userOk
                  THEN [EmptyConfig EXCEPT !.Keys = <<createStoredEntry(CurrentUser, t)>>]
                  ELSE EmptyConfig
        parsed == ScanLines(seeded, lines, t)
        stored == loadStoredData(dirOk, f)
    IN  IF ~stored.err
        THEN [Keys     |-> parsed.Keys \o stored.data.Keys,
              Accounts |-> parsed.Accounts \o stored.data.Accounts,
              Hosts    |-> parsed.Hosts \o stored.data.Hosts,
              Jumps    |-> parsed.Jumps \o stored.data.Jumps]
        ELSE parsed

----------------------------------------------------------------------------
\* Interactive selector adapter: what runFzf makes of the picker's exit

NL == "\n"
FzfError == [val |-> <<>>, err |-> TRUE]
FzfValue(v) == [val |-> v, err |-> FALSE]

\* runFzf after cmd.Output(): r.started is false when the picker could not
\* be launched, r.exit is its exit code and r.out its standard output
runFzf(r) ==
    IF ~r.started THEN FzfError
    ELSE IF r.exit # 0
    THEN IF r.exit = 1
         THEN LET lines == Split(r.out, NL) IN
              IF Len(lines) > 0 /\ lines[1] # <<>>
              THEN FzfValue(lines[1]) ELSE FzfError
         ELSE FzfError
    ELSE LET lines == Split(r.out, NL) IN
         IF Len(lines) >= 2
         THEN LET selection == TrimSpace(lines[2]) IN
              IF selection # <<>> THEN FzfValue(selection)
              ELSE FzfValue(TrimSpace(lines[1]))
         ELSE FzfValue(TrimSpace(r.out))

Range(s) == {s[i] : i \in 1..Len(s)}

\* The picker's behaviours on a candidate list: not launched; cancelled or
\* no match (exit 130 or 1) with the typed query printed; a line selected
\* (exit 0) with query and selection printed.  The selected line is a
\* candidate or one of blanks.
Replies(cands, queries, blanks) ==
    {[started |-> FALSE, exit |-> 0, out |-> <<>>]}
    \cup {[started |-> TRUE, exit |-> e, out |-> q \o <<NL>>] :
            e \in {1, 130}, q \in queries \cup {<<>>}}
    \cup {[started |-> TRUE, exit |-> 0, out |-> q \o <<NL>> \o c \o <<NL>>] :
            q \in queries \cup {<<>>}, c \in Range(cands) \cup blanks}

\* what the user types in the picker, per category, and the empty
\* selection, which is exercised on the jump picker
KeyQueries     == {CurrentUser, <<"b">>}
AccountQueries == {<<"s">>}
HostQueries    == {<<"a">>}
JumpQueries    == {<<"j">>}
NoBlanks       == {}
JumpBlanks     == {<<>>}

----------------------------------------------------------------------------
\* The session: main

MainInit ==
    /\ pc = "idle"
    /\ runs = 0
    /\ now = 0
    /\ file = AbsentFile
    /\ config = EmptyConfig
    /\ storedData = EmptyData
    /\ key = <<>>
    /\ account = <<>>
    /\ host = <<>>
    /\ jump = <<>>
    /\ sshCmd = <<>>
    /\ exitCode = -1
    /\ saveCalls = 0
    /\ sshLaunched = FALSE
    /\ selStarted = {}
    /\ selFailed = "none"

MainPark == MainInit

\* main up to the first picker: the version flag, loadSSHConfig and
\* loadStoredData (its error dropped)
Start ==
    /\ pc \in {"idle", "exited"}
    /\ runs < MaxRuns
    /\ runs' = runs + 1
    /\ now' = now + 1
    /\ key' = <<>> /\ account' = <<>> /\ host' = <<>> /\ jump' = <<>>
    /\ sshCmd' = <<>>
    /\ saveCalls' = 0
    /\ sshLaunched' = FALSE
    /\ selStarted' = {}
    /\ selFailed' = "none"
    /\ UNCHANGED file
    /\ \E showVersion, homeOk, userOk, dirOk \in BOOLEAN, lines \in SshConfigFiles :
          IF showVersion
          THEN /\ pc' = "exited" /\ exitCode' = 0
               /\ config' = EmptyConfig /\ storedData' = EmptyData
          ELSE IF ~homeOk
          THEN /\ pc' = "exited" /\ exitCode' = 1
               /\ config' = EmptyConfig /\ storedData' = EmptyData
          ELSE /\ pc' = "key" /\ exitCode' = -1
               /\ config' = loadSSHConfig(userOk, lines, dirOk, file, now')
               /\ storedData' = loadStoredData(dirOk, file).data

SelectorAbortSaving(cat) ==
    /\ pc' = "exited"
    /\ exitCode' = 1
    /\ selFailed' = cat
    /\ file' = ValidFile(storedData)
    /\ saveCalls' = saveCalls + 1
    /\ UNCHANGED <<storedData, key, account, host, jump, sshCmd, sshLaunched>>

\* the error branch after a runFzf call: report and os.Exit(1)
SelectorAbort(cat) ==
    /\ pc' = "exited"
    /\ exitCode' = 1
    /\ selFailed' = cat
    /\ UNCHANGED <<file, storedData, key, account, host, jump, sshCmd,
                   saveCalls, sshLaunched>>

\* the test guarding the update of the keys list
ShouldStoreKey(k, cfg) == k # cfg.Keys[1].Value

ShouldStoreJumpAlways(j) == TRUE

\* the test guarding the update of the jumps list
ShouldStoreJump(j) == j # <<>>

\* fmt.Sprintf of the connection string
buildCmd(k, a, h, j) ==
    LET base == k \o <<"@">> \o a \o <<"@">> \o h IN
    IF j # <<>> THEN base \o <<"@">> \o j ELSE base

\* key selection; indexing the empty candidate list panics (exit status 2)
SelectKey ==
    /\ pc = "key"
    /\ selStarted' = selStarted \cup {"Keys"}
    /\ UNCHANGED <<runs, now, config>>
    /\ \E r \in Replies(getValues(config.Keys), KeyQueries, NoBlanks) :
          LET res == runFzf(r) IN
          IF res.err THEN SelectorAbort("Keys")
          ELSE IF config.Keys = <<>>
          THEN /\ pc' = "exited" /\ exitCode' = 2
               /\ UNCHANGED <<file, storedData, key, account, host, jump,
                              sshCmd, saveCalls, sshLaunched, selFailed>>
          ELSE /\ key' = res.val
               /\ storedData' =
                     IF ShouldStoreKey(res.val, config)
                     THEN [storedData EXCEPT !.Keys = addOrUpdateEntry(@, res.val, now)]
                     ELSE storedData
               /\ pc' = "account"
               /\ UNCHANGED <<file, account, host, jump, sshCmd, exitCode,
                              saveCalls, sshLaunched, selFailed>>

\* account selection
SelectAccount ==
    /\ pc = "account"
    /\ selStarted' = selStarted \cup {"Accounts"}
    /\ UNCHANGED <<runs, now, config>>
    /\ \E r \in Replies(getValues(config.Accounts), AccountQueries, NoBlanks) :
          LET res == runFzf(r) IN
          IF res.err THEN SelectorAbort("Accounts")
          ELSE /\ account' = res.val
               /\ storedData' =
                     [storedData EXCEPT !.Accounts = addOrUpdateEntry(@, res.val, now)]
               /\ pc' = "host"
               /\ UNCHANGED <<file, key, host, jump, sshCmd, exitCode,
                              saveCalls, sshLaunched, selFailed>>

\* host selection
SelectHost ==
    /\ pc = "host"
    /\ selStarted' = selStarted \cup {"Hosts"}
    /\ UNCHANGED <<runs, now, config>>
    /\ \E r \in Replies(getValues(config.Hosts), HostQueries, NoBlanks) :
          LET res == runFzf(r) IN
          IF res.err THEN SelectorAbort("Hosts")
          ELSE /\ host' = res.val
               /\ storedData' =
                     [storedData EXCEPT !.Hosts = addOrUpdateEntry(@, res.val, now)]
               /\ pc' = "jump"
               /\ UNCHANGED <<file, key, account, jump, sshCmd, exitCode,
                              saveCalls, sshLaunched, selFailed>>

\* jump selection, then saveStoredData (its error dropped) and the
\* connection string
SelectJump ==
    /\ pc = "jump"
    /\ selStarted' = selStarted \cup {"Jumps"}
    /\ UNCHANGED <<runs, now, config>>
    /\ \E r \in Replies(getValues(config.Jumps), JumpQueries, JumpBlanks) :
          LET res == runFzf(r) IN
          IF res.err THEN SelectorAbort("Jumps")
          ELSE /\ jump' = res.val
               /\ storedData' =
                     IF ShouldStoreJump(res.val)
                     THEN [storedData EXCEPT !.Jumps = addOrUpdateEntry(@, res.val, now)]
                     ELSE storedData
               /\ \E saveOk \in BOOLEAN :
                     file' = saveStoredData(storedData', saveOk, file)
               /\ saveCalls' = saveCalls + 1
               /\ sshCmd' = buildCmd(key, account, host, res.val)
               /\ pc' = "confirm"
               /\ UNCHANGED <<key, account, host, exitCode, sshLaunched, selFailed>>

AnswerLines == {<<>>, <<"y">>, <<"n">>}

\* the confirmation and executeSSH; sshOk: the ssh client exits with 0
ConfirmAndLaunch ==
    /\ pc = "confirm"
    /\ pc' = "exited"
    /\ \E line \in AnswerLines, sshOk \in BOOLEAN :
          IF promptConfirmation(line)
          THEN /\ sshLaunched' = TRUE
               /\ exitCode' = IF sshOk THEN 0 ELSE 1
          ELSE /\ sshLaunched' = FALSE
               /\ exitCode' = 0
    /\ UNCHANGED <<runs, now, file, config, storedData, key, account, host,
                   jump, sshCmd, saveCalls, selStarted, selFailed>>

BadFieldSets == {{c} : c \in Categories}

\* between runs the history file is damaged from outside the program
Tamper ==
    /\ pc \in {"idle", "exited"}
    /\ file.kind = "valid"
    /\ \/ \E k \in {"unreadable", "syntax"} :
             file' = [kind |-> k, data |-> EmptyData, bad |-> {}]
       \/ \E b \in BadFieldSets :
             file' = [kind |-> "type", data |-> file.data, bad |-> b]
    /\ UNCHANGED <<pc, runs, now, config, storedData, key, account, host, jump,
                   sshCmd, exitCode, saveCalls, sshLaunched, selStarted,
                   selFailed>>

----------------------------------------------------------------------------
\* Interactive selector adapter: the producer task and cmd.Output of runFzf
\*
\* nItems       length of the candidate list
\* plan         lines the picker reads before it exits by itself; with
\*              plan > nItems it reads to end-of-input
\* idx          index of the next candidate the producer writes
\* pipeBuf      lines in the pipe buffer
\* stdinClosed  the write end (the StdinPipe) is closed
\* readEndOpen  some process holds the read end: this process until the
\*              picker is started, then the picker until it exits

FzfInit ==
    /\ nItems \in 0..MaxItems
    /\ plan \in 0..(MaxItems + 1)
    /\ idx = 1
    /\ ppc = "write"
    /\ pipeBuf = 0
    /\ stdinClosed = FALSE
    /\ readEndOpen = TRUE
    /\ readCount = 0
    /\ kpc = "none"
    /\ opc = "start"

FzfPark ==
    /\ nItems = 0
    /\ plan = 0
    /\ idx = 1
    /\ ppc = "write"
    /\ pipeBuf = 0
    /\ stdinClosed = FALSE
    /\ readEndOpen = TRUE
    /\ readCount = 0
    /\ kpc = "none"
    /\ opc = "start"

\* fmt.Fprintln(stdin, item) in the producer task: it fails at once (the
\* error is dropped) on a closed pipe or a pipe without reader, and blocks
\* while the buffer is full
ProducerWrite ==
    /\ ppc = "write"
    /\ idx <= nItems
    /\ IF stdinClosed \/ ~readEndOpen
       THEN UNCHANGED pipeBuf
       ELSE /\ pipeBuf < PipeCap
            /\ pipeBuf' = pipeBuf + 1
    /\ idx' = idx + 1
    /\ UNCHANGED <<nItems, plan, ppc, stdinClosed, readEndOpen, readCount,
                   kpc, opc>>

\* the deferred stdin.Close() of the producer task
ProducerClose ==
    /\ ppc = "write"
    /\ idx > nItems
    /\ ppc' = "done"
    /\ stdinClosed' = TRUE
    /\ UNCHANGED <<nItems, plan, idx, pipeBuf, readEndOpen, readCount, kpc, opc>>

CanStartPickerAfterWrites == opc = "start" /\ ppc = "done"

\* cmd.Output() is called right after the producer task is spawned
CanStartPicker == opc = "start"

\* cmd.Output(): the picker is started; it holds the read end from now on
StartPickerOk ==
    /\ CanStartPicker
    /\ kpc' = "running"
    /\ opc' = "wait"
    /\ UNCHANGED <<nItems, plan, idx, ppc, pipeBuf, stdinClosed, readEndOpen,
                   readCount>>

\* cmd.Output(): the picker cannot be started; both ends of the pipe are
\* closed and the error is returned
StartPickerFail ==
    /\ CanStartPicker
    /\ opc' = "returned"
    /\ stdinClosed' = TRUE
    /\ readEndOpen' = FALSE
    /\ UNCHANGED <<nItems, plan, idx, ppc, pipeBuf, readCount, kpc>>

\* the picker reads one line
PickerRead ==
    /\ kpc = "running"
    /\ pipeBuf > 0
    /\ readCount < plan
    /\ pipeBuf' = pipeBuf - 1
    /\ readCount' = readCount + 1
    /\ UNCHANGED <<nItems, plan, idx, ppc, stdinClosed, readEndOpen, kpc, opc>>

\* the picker exits: the user has chosen, or it has seen end-of-input
PickerExit ==
    /\ kpc = "running"
    /\ \/ readCount = plan
       \/ pipeBuf = 0 /\ stdinClosed
    /\ kpc' = "exited"
    /\ readEndOpen' = FALSE
    /\ UNCHANGED <<nItems, plan, idx, ppc, pipeBuf, stdinClosed, readCount, opc>>

\* cmd.Output() sees the picker exit, closes the StdinPipe and returns
OutputReturn ==
    /\ opc = "wait"
    /\ kpc = "exited"
    /\ opc' = "returned"
    /\ stdinClosed' = TRUE
    /\ UNCHANGED <<nItems, plan, idx, ppc, pipeBuf, readEndOpen, readCount, kpc>>

----------------------------------------------------------------------------
\* Specifications

EntriesNext ==
    \/ AddOrUpdate /\ UNCHANGED <<confirmVars, parseVars, mainVars, fzfVars>>
    \/ Tick /\ UNCHANGED <<confirmVars, parseVars, mainVars, fzfVars>>
InitEntries == EntriesInit /\ ConfirmPark /\ ParsePark /\ MainPark /\ FzfPark
SpecEntries == InitEntries /\ [][EntriesNext]_vars

ConfirmNext == Confirm /\ UNCHANGED <<entriesVars, parseVars, mainVars, fzfVars>>
InitConfirm == ConfirmInit /\ EntriesPark /\ ParsePark /\ MainPark /\ FzfPark
SpecConfirm == InitConfirm /\ [][ConfirmNext]_vars

ParseNext == ScanOne /\ UNCHANGED <<entriesVars, confirmVars, mainVars, fzfVars>>
InitParse == ParseInit /\ EntriesPark /\ ConfirmPark /\ MainPark /\ FzfPark
SpecParse == InitParse /\ [][ParseNext]_vars

Next ==
    \/ Start /\ UNCHANGED <<entriesVars, confirmVars, parseVars, fzfVars>>
    \/ SelectKey /\ UNCHANGED <<entriesVars, confirmVars, parseVars, fzfVars>>
    \/ SelectAccount /\ UNCHANGED <<entriesVars, confirmVars, parseVars, fzfVars>>
    \/ SelectHost /\ UNCHANGED <<entriesVars, confirmVars, parseVars, fzfVars>>
    \/ SelectJump /\ UNCHANGED <<entriesVars, confirmVars, parseVars, fzfVars>>
    \/ ConfirmAndLaunch /\ UNCHANGED <<entriesVars, confirmVars, parseVars, fzfVars>>
    \/ Tamper /\ UNCHANGED <<entriesVars, confirmVars, parseVars, fzfVars>>
Init == MainInit /\ EntriesPark /\ ConfirmPark /\ ParsePark /\ FzfPark
Spec == Init /\ [][Next]_vars

otherVars == <<entriesVars, confirmVars, parseVars, mainVars>>
FzfNext ==
    \/ ProducerWrite /\ UNCHANGED otherVars
    \/ ProducerClose /\ UNCHANGED otherVars
    \/ StartPickerOk /\ UNCHANGED otherVars
    \/ StartPickerFail /\ UNCHANGED otherVars
    \/ PickerRead /\ UNCHANGED otherVars
    \/ PickerExit /\ UNCHANGED otherVars
    \/ OutputReturn /\ UNCHANGED otherVars
\* The Go scheduler runs every runnable task, and a started picker runs:
\* each step that stays enabled is eventually taken.
FzfFairness ==
    /\ WF_vars(ProducerWrite /\ UNCHANGED otherVars)
    /\ WF_vars(ProducerClose /\ UNCHANGED otherVars)
    /\ WF_vars((StartPickerOk \/ StartPickerFail) /\ UNCHANGED otherVars)
    /\ WF_vars(PickerRead /\ UNCHANGED otherVars)
    /\ WF_vars(PickerExit /\ UNCHANGED otherVars)
    /\ WF_vars(OutputReturn /\ UNCHANGED otherVars)
InitFzf == FzfInit /\ EntriesPark /\ ConfirmPark /\ ParsePark /\ MainPark
SpecFzf == InitFzf /\ [][FzfNext]_vars /\ FzfFairness

----------------------------------------------------------------------------
\* Properties

ValueSet(es) == {es[i].Value : i \in 1..Len(es)}
Occurrences(es, v) == Cardinality({i \in 1..Len(es) : es[i].Value = v})
IsCall == calls' = calls + 1

\* C1: over runs that start from an empty history, a run whose chosen key
\* is the current user's name leaves the keys list alone, and the persisted
\* keys list never holds an entry with the current user's name.
C1_CurrentUserNeverPersisted ==
    /\ [][(pc = "key" /\ pc' = "account" /\ key' = CurrentUser)
            => storedData'.Keys = storedData.Keys]_vars
    /\ [](CurrentUser \notin ValueSet(file.data.Keys))

RunPcs == {"key", "account", "host", "jump", "confirm"}
Through(cat) ==
    CASE cat = "Keys"     -> {"Keys"}
      [] cat = "Accounts" -> {"Keys", "Accounts"}
      [] cat = "Hosts"    -> {"Keys", "Accounts", "Hosts"}
      [] cat = "Jumps"    -> Categories
      [] OTHER            -> {}
AllSelected == selStarted = Categories /\ selFailed = "none"

\* C2: a selector error ends the run at that step with exit code 1, without
\* a later selection, a save or a launch, and leaves the history file as it
\* was; saveStoredData runs only after four successful selections, once.
C2_AbortOnSelectorError ==
    /\ [](selFailed # "none" =>
            /\ pc = "exited"
            /\ exitCode = 1
            /\ saveCalls = 0
            /\ ~sshLaunched
            /\ selStarted = Through(selFailed))
    /\ [](saveCalls <= 1 /\ (saveCalls = 1 <=> (AllSelected /\ pc \in {"confirm", "exited"})))
    /\ [](sshLaunched => AllSelected)
    /\ [][(pc \in RunPcs /\ file' # file) =>
             (pc = "jump" /\ pc' = "confirm" /\ saveCalls' = 1)]_vars
    /\ [][(selFailed = "none" /\ selFailed' # "none") => file' = file]_vars

\* a run aborted at the jump selector: accounts were updated in memory, the
\* file is still absent
C2_Witness ==
    /\ selFailed = "Jumps"
    /\ storedData.Accounts # <<>>
    /\ file = AbsentFile
    /\ exitCode = 1

\* C3: on a duplicate-free list every value occurs once after any sequence
\* of addOrUpdateEntry calls, and a call with a value already present keeps
\* the length.
C3_ValuesUnique ==
    /\ []NoDup(entries)
    /\ [][IsCall =>
            /\ Occurrences(entries', arg') = 1
            /\ (arg' \in ValueSet(entries) => Len(entries') = Len(entries))
            /\ ValueSet(entries') = ValueSet(entries) \cup {arg'}]_vars

\* the same value passed twice to a list that started empty
C3_Witness ==
    /\ calls = 2
    /\ Len(entries) = 1
    /\ entries[1].Value = arg

\* C4: a call with a present value sets only that entry's LastUsed to the
\* current time; a call with an absent value appends an entry created and
\* last used now; so CreatedAt never changes, LastUsed never decreases and
\* CreatedAt <= LastUsed.
C4_TimestampsKept ==
    /\ [](\A i \in 1..Len(entries) : entries[i].CreatedAt <= entries[i].LastUsed)
    /\ [][IsCall =>
            IF arg' \in ValueSet(entries)
            THEN /\ Len(entries') = Len(entries)
                 /\ \A i \in 1..Len(entries) :
                       IF entries[i].Value = arg'
                       THEN entries'[i] = Entry(arg', clock, entries[i].CreatedAt)
                       ELSE entries'[i] = entries[i]
            ELSE entries' = Append(entries, Entry(arg', clock, clock))]_vars
    /\ [][/\ Len(entries') >= Len(entries)
          /\ \A i \in 1..Len(entries) :
                /\ entries'[i].Value = entries[i].Value
                /\ entries'[i].CreatedAt = entries[i].CreatedAt
                /\ entries'[i].LastUsed >= entries[i].LastUsed]_vars

\* an entry inserted by a call and refreshed at a later time, after another
\* entry
C4_Witness ==
    /\ Len(entries) >= 2
    /\ entries[2].CreatedAt > 0
    /\ entries[2].LastUsed > entries[2].CreatedAt
    /\ entries[2].Value = arg

\* C5: the jumps list never gets an entry with the empty value; an empty
\* jump selection leaves the jumps list as it is while the account and the
\* host (and a key other than the first candidate) are in the data handed
\* to saveStoredData.
C5_EmptyJumpNotStored ==
    /\ [](<<>> \notin ValueSet(file.data.Jumps) /\ <<>> \notin ValueSet(storedData.Jumps))
    /\ [][(pc = "jump" /\ pc' = "confirm" /\ jump' = <<>>) =>
            /\ storedData'.Jumps = storedData.Jumps
            /\ account \in ValueSet(storedData'.Accounts)
            /\ host \in ValueSet(storedData'.Hosts)
            /\ (key # config.Keys[1].Value => key \in ValueSet(storedData'.Keys))
            /\ saveCalls' = 1
            /\ (file' # file => file' = ValidFile(storedData'))]_vars

\* a run with an empty jump, saved, whose history holds a jump of an earlier
\* run, untouched
C5_Witness ==
    /\ pc = "confirm"
    /\ jump = <<>>
    /\ file = ValidFile(storedData)
    /\ Len(storedData.Jumps) = 1
    /\ storedData.Jumps[1].LastUsed < now
    /\ storedData.Accounts # <<>>
    /\ storedData.Hosts # <<>>

\* C6: in every run the key candidate list is non-empty and starts with the
\* synthetic entry of the current user.
C6_FirstKeyIsCurrentUser ==
    pc \in RunPcs =>
        /\ config.Keys # <<>>
        /\ config.Keys[1] = createStoredEntry(CurrentUser, now)

\* C7: the confirmation is true exactly when the whole line, trimmed and
\* lower-cased, is "y"; otherwise the ssh client is not launched.
C7_OnlyExactY ==
    cpc = "done" =>
        /\ cAnswer <=> (ToLower(TrimSpace(cLine)) = <<"y">>)
        /\ cLaunched <=> (ToLower(TrimSpace(cLine)) = <<"y">>)

IsWildcard(tok) == Contains(tok, "*")
NonWildcard(tok) == ~IsWildcard(tok)

\* C8: a line starting with "Host " contributes exactly its tokens without
\* a wildcard, in order.
C8_HostTokensWithoutWildcard ==
    [][(pCount' = pCount + 1 /\ HasPrefix(TrimSpace(pLine'), HostKw)) =>
          getValues(pCfg'.Hosts) =
             getValues(pCfg.Hosts)
                \o SelectSeq(Fields(TrimPrefix(TrimSpace(pLine'), HostKw)), NonWildcard)]_vars

\* C9: with a history file that exists and cannot be read or parsed, the
\* run goes on to the selections with four empty lists.
C9_EmptyOnUnreadable ==
    (pc = "key" /\ file.kind \in {"unreadable", "syntax", "type"}) =>
        storedData = EmptyData

\* C10: runFzf returns and the producer task ends, for every list length
\* and picker behaviour; the producer has then gone through every candidate
\* and closed the stream.
C10_NoDeadlock ==
    /\ <>(opc = "returned")
    /\ <>(ppc = "done")
    /\ [](ppc = "done" => (idx = nItems + 1 /\ stdinClosed))

\* a list longer than the pipe buffer, a picker that left before reading
\* all of it, and both tasks finished
C10_Witness ==
    /\ nItems > PipeCap
    /\ kpc = "exited"
    /\ readCount < nItems
    /\ opc = "returned"
    /\ ppc = "done"

====
